---- MODULE Spec2Model ----
(***************************************************************************)
(* save-tabs: the window selection loop (select_windows) and the           *)
(* keyboard-simulation tab scraper (Windows branch of get_tab_urls) of     *)
(* src/src/save_tabs/window_list_module.py.                                *)
(***************************************************************************)
EXTENDS Integers, Sequences, FiniteSets, TLC

VARIABLES
    pc,                       \* where the running function stands
    \* ---- select_windows ----
    window_list,              \* the pool; a picked slot holds None
    window_count,             \* len(window_list) at entry
    selected_window_indexes,  \* 1-based slot numbers, in pick order
    selected_windows,         \* the records picked, in pick order
    selection_complete,       \* the loop flag
    user_input,               \* the character read by the latest iteration
    discovered,               \* history: the pool as passed to select_windows
    before,                   \* history: the lists as the latest iteration found them
    history,                  \* history: one entry per pick not undone
    undone,                   \* history: the entry the latest undo took back
    any_undo,                 \* history: some undo has taken a pick back
    \* ---- get_tab_urls (keyboard simulation) ----
    tabs,                     \* the window's tab strip, left to right
    cursor,                   \* the active tab (1-based position in tabs)
    start,                    \* history: the tab that was active at entry
    tab_urls,                 \* the list being built
    repeats,                  \* the repeat counter
    copied,                   \* history: every address copied, one per cycle
    \* ---- get_window_list (native queries) ----
    impl,                     \* the module whose get_window_list runs
    window_index,             \* the loop variable i of the per-window loop
    queries,                  \* history: the external queries issued, in order
    raised,                   \* the exception that left the function, or ""
    count_output,             \* history: what the window-count query printed
    notice,                   \* the "No Chrome windows found!" notice was shown
    \* ---- window_macos.choose_windows ----
    invalid_choice,           \* the loop flag
    indexes,                  \* the pieces of user_input between commas
    index_pos,                \* the position of the for loop in indexes
    chosen_windows,           \* the list being built
    \* ---- get_window_list (Windows), focus_chrome_window ----
    consent,                  \* the answer to the disclaimer, as typed
    foreground,               \* the title of the foreground window
    foreground_window_text,   \* the local the focus loop tests
    clicks,                   \* history: simulated mouse clicks issued
    keystrokes,               \* history: simulated keystrokes issued
    prompts,                  \* history: "isn't in the right spot" prompts shown
    focused_at,               \* history: clicks issued when Chrome was first seen in front
    \* ---- file_menu.get_file_path ----
    platform,                 \* platform.system()
    overwrite_txt,            \* what load_pickle("overwrite.txt") gives
    file_overwriting,         \* the stored overwrite setting
    existing,                 \* the file names present in the target directory
    suffix,                   \* the next suffix to try
    new_file_name,            \* the candidate name
    file_path                 \* the path returned

selectVars == <<window_list, window_count, selected_window_indexes, selected_windows,
                selection_complete, user_input, discovered, before, history, undone,
                any_undo>>
scrapeVars == <<tabs, cursor, start, tab_urls, repeats, copied>>
enumVars == <<impl, window_index, queries, raised, count_output, notice>>
chooseVars == <<invalid_choice, indexes, index_pos, chosen_windows>>
winVars == <<consent, foreground, foreground_window_text, clicks, keystrokes, prompts,
             focused_at>>
fileVars == <<platform, overwrite_txt, file_overwriting, existing, suffix, new_file_name, file_path>>
laterVars == <<chooseVars, winVars, fileVars>>
restVars == <<enumVars, laterVars>>
vars == <<pc, selectVars, scrapeVars, restVars>>

\* The variables of get_window_list while another function runs.
EnumIdle ==
    /\ impl = "" /\ window_index = 0 /\ queries = <<>> /\ raised = ""
    /\ count_output = <<>> /\ notice = FALSE

\* The variables of choose_windows while another function runs.
ChooseIdle ==
    /\ invalid_choice = FALSE /\ indexes = <<>> /\ index_pos = 0 /\ chosen_windows = <<>>

\* The variables of the Windows get_window_list while another function runs.
WinIdle ==
    /\ consent = "" /\ foreground = "" /\ foreground_window_text = ""
    /\ clicks = 0 /\ keystrokes = 0 /\ prompts = 0 /\ focused_at = 0

\* No file name yet.
NoName == [stem |-> "", n |-> 0, ext |-> ""]

\* The variables of get_file_path while another function runs.
FileIdle ==
    /\ platform = "" /\ overwrite_txt = "" /\ file_overwriting = ""
    /\ existing = {} /\ suffix = 0
    /\ new_file_name = NoName /\ file_path = NoName

LaterIdle == ChooseIdle /\ WinIdle /\ FileIdle

\* The variables of every function this module adds to the first two.
RestIdle == EnumIdle /\ LaterIdle

\* ---------------------------------------------------------------- bounds
MaxWindows == 3
MaxTabs == 4
MaxHeader == 2
MaxClicks == 4
MaxSuffix == 3
MaxStrip == 6
BigWindows == 10
MaxBigPicks == 2

\* ---------------------------------------------------------------- helpers
Range(s) == {s[i] : i \in 1..Len(s)}
Last(s) == s[Len(s)]
Front(s) == SubSeq(s, 1, Len(s) - 1)
SeqsUpTo(S, lo, hi) == UNION {[1..n -> S] : n \in lo..hi}

\* ---------------------------------------------------------------- records
Window(type, urls) == [type |-> type, urls |-> urls]
None == [type |-> "None", urls |-> <<>>]
WindowRecords == {Window("regular", <<"a.com">>),
                  Window("incognito", <<"b.com", "c.com">>)}

\* ---------------------------------------------------------------- input characters
\* One character per read.  ENTER is "\r", DEL is "\177", BS is "\b".
\* SUP2 is U+00B2 (superscript two) and ARABIC3 is U+0663 (Arabic-Indic three):
\* both satisfy str.isdigit; int() accepts only the decimal one.
ENTER == "ENTER"
DEL == "DEL"
BS == "BS"
SUP2 == "SUP2"
ARABIC3 == "ARABIC3"
AsciiDigits == {"0", "1", "2", "3", "4", "5", "6", "7", "8", "9"}
Chars == AsciiDigits \cup {ENTER, DEL, BS, "a", SUP2, ARABIC3}

isdigit(c) == c \in AsciiDigits \cup {SUP2, ARABIC3}

\* int(c) raises ValueError on a digit that is not a decimal.
IntRaises(c) == c = SUP2
int(c) ==
    CASE c = "0" -> 0 [] c = "1" -> 1 [] c = "2" -> 2 [] c = "3" -> 3 [] c = "4" -> 4
      [] c = "5" -> 5 [] c = "6" -> 6 [] c = "7" -> 7 [] c = "8" -> 8 [] c = "9" -> 9
      [] c = ARABIC3 -> 3

\* ---------------------------------------------------------------- Python lists
\* Python lists are 0-based; the sequences here are 1-based.
At(list, i) == list[i + 1]
Store(list, i, v) == [list EXCEPT ![i + 1] = v]
Pop(list) == Front(list)

\* ================================================================ select_windows
Snapshot == [window_list |-> window_list,
             selected_windows |-> selected_windows,
             selected_window_indexes |-> selected_window_indexes]
NoSnapshot == [window_list |-> <<>>, selected_windows |-> <<>>,
               selected_window_indexes |-> <<>>]
NoEntry == [pre |-> NoSnapshot, slot |-> 0]

\* The scraper's variables while select_windows runs.
ScrapeIdle ==
    /\ tabs = <<>> /\ cursor = 0 /\ start = 0 /\ tab_urls = <<>>
    /\ repeats = 0 /\ copied = <<>>

\* select_windows is entered from get_window_list with two windows or more.
InitSelect ==
    /\ pc = "choosing"
    /\ discovered \in SeqsUpTo(WindowRecords, 2, MaxWindows)
    /\ window_list = discovered
    /\ window_count = Len(discovered)
    /\ selected_window_indexes = <<>>
    /\ selected_windows = <<>>
    /\ selection_complete = FALSE
    /\ user_input = ""
    /\ before = NoSnapshot
    /\ history = <<>>
    /\ undone = NoEntry
    /\ any_undo = FALSE
    /\ ScrapeIdle
    /\ RestIdle

\* The top of an iteration: the loop condition holds and one character is read.
Read(c) ==
    /\ pc = "choosing"
    /\ ~selection_complete
    /\ user_input' = c
    /\ before' = Snapshot

\* The bottom of an iteration: back to the loop condition, or out and return.
Loop == pc' = IF selection_complete' THEN "returned" ELSE "choosing"

\* A mutant of ChooseWindow: the picked slot keeps its record.
ChooseWindowNoTombstone(c) ==
    /\ Read(c)
    /\ isdigit(c) /\ ~IntRaises(c)
    /\ 0 < int(c) /\ int(c) <= window_count
    /\ int(c) \notin Range(selected_window_indexes)
    /\ selected_window_indexes' = Append(selected_window_indexes, int(c))
    /\ selected_windows' = Append(selected_windows, At(window_list, int(c) - 1))
    /\ window_list' = window_list
    /\ selection_complete' = (Len(selected_windows') = window_count)
    /\ history' = Append(history, [pre |-> Snapshot, slot |-> int(c)])
    /\ undone' = NoEntry
    /\ Loop
    /\ UNCHANGED <<window_count, discovered, any_undo, scrapeVars, restVars>>

\* A mutant of ChooseWindow: the loop does not end when the last window is picked.
ChooseWindowNoAutoDone(c) ==
    /\ Read(c)
    /\ isdigit(c) /\ ~IntRaises(c)
    /\ 0 < int(c) /\ int(c) <= window_count
    /\ int(c) \notin Range(selected_window_indexes)
    /\ selected_window_indexes' = Append(selected_window_indexes, int(c))
    /\ selected_windows' = Append(selected_windows, At(window_list, int(c) - 1))
    /\ window_list' = Store(window_list, int(c) - 1, None)
    /\ selection_complete' = selection_complete
    /\ history' = Append(history, [pre |-> Snapshot, slot |-> int(c)])
    /\ undone' = NoEntry
    /\ Loop
    /\ UNCHANGED <<window_count, discovered, any_undo, scrapeVars, restVars>>

\* A mutant of ChooseWindow: the picked record goes to the front of the selection.
ChooseWindowPrepends(c) ==
    /\ Read(c)
    /\ isdigit(c) /\ ~IntRaises(c)
    /\ 0 < int(c) /\ int(c) <= window_count
    /\ int(c) \notin Range(selected_window_indexes)
    /\ selected_window_indexes' = <<int(c)>> \o selected_window_indexes
    /\ selected_windows' = <<At(window_list, int(c) - 1)>> \o selected_windows
    /\ window_list' = Store(window_list, int(c) - 1, None)
    /\ selection_complete' = (Len(selected_windows') = window_count)
    /\ history' = Append(history, [pre |-> Snapshot, slot |-> int(c)])
    /\ undone' = NoEntry
    /\ Loop
    /\ UNCHANGED <<window_count, discovered, any_undo, scrapeVars, restVars>>

\* A mutant of ChooseWindow: a slot already selected can be picked again.
ChooseWindowAgain(c) ==
    /\ Read(c)
    /\ isdigit(c) /\ ~IntRaises(c)
    /\ 0 < int(c) /\ int(c) <= window_count
    /\ selected_window_indexes' = Append(selected_window_indexes, int(c))
    /\ selected_windows' = Append(selected_windows, At(window_list, int(c) - 1))
    /\ window_list' = Store(window_list, int(c) - 1, None)
    /\ selection_complete' = (IF Len(selected_windows') = window_count
                              THEN TRUE ELSE selection_complete)
    /\ history' = Append(history, [pre |-> Snapshot, slot |-> int(c)])
    /\ undone' = NoEntry
    /\ Loop
    /\ UNCHANGED <<window_count, discovered, any_undo, scrapeVars, restVars>>

\* "Chosen window": a digit naming a slot in range that is not selected yet.
ChooseWindow(c) ==
    /\ Read(c)
    /\ isdigit(c) /\ ~IntRaises(c)
    /\ 0 < int(c) /\ int(c) <= window_count
    /\ int(c) \notin Range(selected_window_indexes)
    /\ selected_window_indexes' = Append(selected_window_indexes, int(c))
    /\ selected_windows' = Append(selected_windows, At(window_list, int(c) - 1))
    /\ window_list' = Store(window_list, int(c) - 1, None)
    /\ selection_complete' = (IF Len(selected_windows') = window_count
                              THEN TRUE ELSE selection_complete)
    /\ history' = Append(history, [pre |-> Snapshot, slot |-> int(c)])
    /\ undone' = NoEntry
    /\ Loop
    /\ UNCHANGED <<window_count, discovered, any_undo, scrapeVars, restVars>>

\* The first condition evaluates int(user_input) on a digit int() rejects:
\* ValueError leaves select_windows.
IntValueError(c) ==
    /\ Read(c)
    /\ isdigit(c) /\ IntRaises(c)
    /\ pc' = "raised"
    /\ undone' = NoEntry
    /\ UNCHANGED <<window_list, window_count, selected_window_indexes, selected_windows,
                   selection_complete, discovered, history, any_undo, scrapeVars, restVars>>

\* A mutant of Confirm: enter with nothing selected selects nothing.
ConfirmNoSelectAll(c) ==
    /\ Read(c)
    /\ ~isdigit(c)
    /\ c = ENTER
    /\ selected_windows' = selected_windows
    /\ selection_complete' = TRUE
    /\ undone' = NoEntry
    /\ Loop
    /\ UNCHANGED <<window_list, window_count, selected_window_indexes, discovered,
                   history, any_undo, scrapeVars, restVars>>

\* Enter: keep the selection, or the whole list when nothing is selected.
Confirm(c) ==
    /\ Read(c)
    /\ ~isdigit(c)
    /\ c = ENTER
    /\ selected_windows' = IF Len(selected_window_indexes) = 0
                           THEN window_list ELSE selected_windows
    /\ selection_complete' = TRUE
    /\ undone' = NoEntry
    /\ Loop
    /\ UNCHANGED <<window_list, window_count, selected_window_indexes, discovered,
                   history, any_undo, scrapeVars, restVars>>

\* A mutant of Undo: the record goes back to the slot after its own
\* (the "- 1" of the index is dropped; the last slot wraps to the first).
UndoWrongSlot(c) ==
    /\ Read(c)
    /\ ~isdigit(c) /\ c # ENTER
    /\ c \in {DEL, BS} /\ Len(selected_window_indexes) > 0
    /\ LET return_to_windows_list_index == Last(selected_window_indexes) % window_count
       IN window_list' = Store(window_list, return_to_windows_list_index,
                               Last(selected_windows))
    /\ selected_window_indexes' = Pop(selected_window_indexes)
    /\ selected_windows' = Pop(selected_windows)
    /\ history' = Front(history)
    /\ undone' = Last(history)
    /\ any_undo' = TRUE
    /\ UNCHANGED <<window_count, selection_complete, discovered, scrapeVars, restVars>>
    /\ Loop

\* Backspace or delete with something selected: undo the most recent pick.
Undo(c) ==
    /\ Read(c)
    /\ ~isdigit(c) /\ c # ENTER
    /\ c \in {DEL, BS} /\ Len(selected_window_indexes) > 0
    /\ LET return_to_windows_list_index == Last(selected_window_indexes) - 1
       IN window_list' = Store(window_list, return_to_windows_list_index,
                               Last(selected_windows))
    /\ selected_window_indexes' = Pop(selected_window_indexes)
    /\ selected_windows' = Pop(selected_windows)
    /\ history' = Front(history)
    /\ undone' = Last(history)
    /\ any_undo' = TRUE
    /\ UNCHANGED <<window_count, selection_complete, discovered, scrapeVars, restVars>>
    /\ Loop

\* No branch of the if/elif chain is taken: the loop goes round.
Reprompt(c) ==
    /\ Read(c)
    /\ ~(isdigit(c) /\ IntRaises(c))
    /\ ~(/\ isdigit(c)
         /\ 0 < int(c) /\ int(c) <= window_count
         /\ int(c) \notin Range(selected_window_indexes))
    /\ c # ENTER
    /\ ~(c \in {DEL, BS} /\ Len(selected_window_indexes) > 0)
    /\ undone' = NoEntry
    /\ UNCHANGED <<window_list, window_count, selected_window_indexes, selected_windows,
                   selection_complete, discovered, history, any_undo, scrapeVars, restVars>>
    /\ Loop

NextSelect ==
    \E c \in Chars :
        \/ ChooseWindow(c)
        \/ IntValueError(c)
        \/ Confirm(c)
        \/ Undo(c)
        \/ Reprompt(c)

SelectSpec == InitSelect /\ [][NextSelect]_vars

\* A mutant of Display: the remaining windows are renumbered from 1.
DisplayCompacted(list) ==
    {[number |-> Cardinality({j \in 0..i : At(list, j) # None}), window |-> At(list, i)] :
        i \in {j \in 0..(Len(list) - 1) : At(list, j) # None}}

\* "Print available tab/ window options": every slot that holds a window is
\* printed under its enumerate index plus one.
Display(list) ==
    {[number |-> i + 1, window |-> At(list, i)] :
        i \in {j \in 0..(Len(list) - 1) : At(list, j) # None}}

\* ---------------------------------------------------------------- select_windows: properties
Count(list, r) == Cardinality({i \in 1..Len(list) : list[i] = r})
NonEmptySlots == {k \in 1..Len(window_list) : window_list[k] # None}
PickedSlots == [j \in 1..Len(history) |-> history[j].slot]

\* The latest iteration was an undo that took a pick back.
UndoActed == user_input \in {DEL, BS} /\ before.selected_window_indexes # <<>>

\* C1: after any sequence of valid picks followed by one undo, selected_windows,
\* selected_window_indexes and window_list are what they were before the last pick:
\* the undone record is back at its original slot and no other slot has changed.
C1_UndoRestoresLastPick ==
    UndoActed =>
        /\ undone.slot = Last(before.selected_window_indexes)
        /\ selected_windows = undone.pre.selected_windows
        /\ selected_window_indexes = undone.pre.selected_window_indexes
        /\ window_list = undone.pre.window_list
        /\ window_list[undone.slot] = discovered[undone.slot]
        /\ \A j \in (1..window_count) \ {undone.slot} :
               window_list[j] = before.window_list[j]

\* C1 witness: the second of two picks, of slot 1 in a pool of three, is undone.
C1_Witness ==
    /\ UndoActed
    /\ window_count = 3
    /\ before.selected_window_indexes = <<3, 1>>
    /\ selected_window_indexes = <<3>>
    /\ window_list[1] # None

\* C2: enter while nothing is selected (first iteration, or every pick undone)
\* returns every record of the original pool, in pool order, with no None entry.
C2_ConfirmEmptyReturnsPool ==
    (pc = "returned" /\ user_input = ENTER /\ before.selected_window_indexes = <<>>) =>
        /\ selected_windows = discovered
        /\ \A j \in 1..Len(selected_windows) : selected_windows[j] # None

\* C2 witness: enter with an empty selection after some pick was undone.
C2_Witness ==
    /\ pc = "returned" /\ user_input = ENTER
    /\ before.selected_window_indexes = <<>>
    /\ any_undo
    /\ Len(selected_windows) = 3

\* Every record is in exactly one of the pool and the selection, and the
\* non-empty slots and the selection add up to the window count.
Partitioned ==
    /\ \A r \in WindowRecords :
           Count(window_list, r) + Count(selected_windows, r) = Count(discovered, r)
    /\ Cardinality(NonEmptySlots) + Len(selected_windows) = window_count

\* C3 as stated: the partition holds in every reachable state of select_windows,
\* the terminal state reached by any path included.
C3_PartitionEverywhere == Partitioned

\* C3 as amended: the partition holds while choosing and in a terminal state reached
\* with something selected; after enter with nothing selected the result is the
\* pool list itself, so every record is in both.
C3_PartitionUnlessSelectAll ==
    IF pc = "returned" /\ selected_window_indexes = <<>>
    THEN /\ selected_windows = window_list
         /\ window_list = discovered
         /\ Cardinality(NonEmptySlots) + Len(selected_windows) = 2 * window_count
    ELSE Partitioned

\* C3 witness: enter after one pick out of three windows.
C3_Witness ==
    /\ pc = "returned" /\ user_input = ENTER
    /\ window_count = 3
    /\ Len(selected_windows) = 1
    /\ Cardinality(NonEmptySlots) = 2

\* A character int() reads as a decimal number.
Decimal(c) == c \in AsciiDigits \cup {ARABIC3}

\* The latest character was none of: a valid pick, enter, an undo with a selection.
NoOpInput ==
    /\ user_input # ""
    /\ ~(/\ Decimal(user_input)
         /\ 0 < int(user_input) /\ int(user_input) <= window_count
         /\ int(user_input) \notin Range(before.selected_window_indexes))
    /\ user_input # ENTER
    /\ ~(user_input \in {DEL, BS} /\ before.selected_window_indexes # <<>>)

\* C4: any input that is not a valid pick, a confirm or an undo with a non-empty
\* selection leaves the pool, the selection and the index list unchanged, and the
\* loop stays in CHOOSING and prompts again.
C4_InvalidInputIsNoOp ==
    NoOpInput => (Snapshot = before /\ pc = "choosing" /\ ~selection_complete)

\* The no-op holds for every such input except a digit int() rejects.
RepromptFrame ==
    (NoOpInput /\ ~(isdigit(user_input) /\ IntRaises(user_input))) =>
        (Snapshot = before /\ pc = "choosing" /\ ~selection_complete)

\* C5: once a pick has left every slot tombstoned the function has returned the
\* selection: the last character read is that pick, and no confirm was read.
C5_AllPickedReturns ==
    (Len(selected_window_indexes) = window_count) =>
        /\ selection_complete /\ pc = "returned"
        /\ Decimal(user_input)
        /\ int(user_input) = Last(selected_window_indexes)
        /\ Len(selected_windows) = window_count
        /\ NonEmptySlots = {}

\* C5 witness: all three windows of a pool picked.
C5_Witness ==
    /\ pc = "returned"
    /\ window_count = 3
    /\ selected_window_indexes = <<2, 3, 1>>

\* C6: a non-empty result is exactly the records picked and not undone, in the
\* order they were picked.
C6_ResultInPickOrder ==
    (pc = "returned" /\ selected_window_indexes # <<>>) =>
        /\ Len(selected_windows) = Len(history)
        /\ \A j \in 1..Len(history) : selected_windows[j] = discovered[PickedSlots[j]]

\* C6 witness: two different windows, picked 2 then 1, with an earlier pick undone.
C6_Witness ==
    /\ pc = "returned"
    /\ window_count = 2
    /\ discovered[1] # discovered[2]
    /\ PickedSlots = <<2, 1>>
    /\ selected_windows = <<discovered[2], discovered[1]>>
    /\ any_undo

\* The latest iteration was a pick.
PickActed ==
    /\ Decimal(user_input)
    /\ selected_window_indexes = Append(before.selected_window_indexes, int(user_input))

\* C17: a remaining window is displayed, and picked, under its original 1-based
\* position in the pool, whatever was tombstoned or restored in other slots;
\* tombstoned slots are not displayed.
C17_DisplayedNumberIsPoolPosition ==
    /\ \A e \in Display(window_list) :
           e.number \in 1..window_count /\ e.window = discovered[e.number]
    /\ {e.number : e \in Display(window_list)}
           = (1..window_count) \ Range(selected_window_indexes)
    /\ PickActed =>
           [number |-> int(user_input), window |-> Last(selected_windows)]
               \in Display(before.window_list)

\* C17 witness: after a pick was undone and slot 1 tombstoned, slots 2 and 3 of a
\* three-window pool are displayed as 2 and 3, and 3 is then picked.
C17_Witness ==
    /\ window_count = 3
    /\ discovered[2] # discovered[3]
    /\ any_undo
    /\ Display(before.window_list) = {[number |-> 2, window |-> discovered[2]],
                                      [number |-> 3, window |-> discovered[3]]}
    /\ PickActed
    /\ selected_window_indexes = <<1, 3>>
    /\ Display(window_list) = {[number |-> 2, window |-> discovered[2]]}

\* The two selection lists run in step: as long, no index twice, every index in
\* range with its pool slot empty, and the k-th record the one first found at the
\* k-th index.
IndexesMatchRecords ==
    /\ Len(selected_window_indexes) = Len(selected_windows)
    /\ \A j, k \in 1..Len(selected_window_indexes) :
           j # k => selected_window_indexes[j] # selected_window_indexes[k]
    /\ \A k \in 1..Len(selected_window_indexes) :
           /\ selected_window_indexes[k] \in 1..window_count
           /\ window_list[selected_window_indexes[k]] = None
           /\ selected_windows[k] = discovered[selected_window_indexes[k]]

\* C23: while choosing, the index list and the record list run in step; so the
\* result returned holds no pool slot twice and no empty entry.
C23_IndexesMatchRecords ==
    /\ pc = "choosing" => IndexesMatchRecords
    /\ pc = "returned" =>
           /\ None \notin Range(selected_windows)
           /\ IF selected_window_indexes = <<>>
              THEN selected_windows = discovered
              ELSE IndexesMatchRecords

\* C23 witness: slots 3 and 1 of three picked after an undo, still choosing.
C23_Witness ==
    /\ pc = "choosing"
    /\ window_count = 3
    /\ any_undo
    /\ discovered[3] # discovered[1]
    /\ selected_window_indexes = <<3, 1>>
    /\ selected_windows = <<discovered[3], discovered[1]>>
    /\ window_list = <<None, discovered[2], None>>

\* ---------------------------------------------------------------- select_windows: a large pool
\* select_windows entered with a pool of BigWindows windows.
InitBigSelect ==
    /\ pc = "choosing"
    /\ discovered = [k \in 1..BigWindows |->
                        IF k % 2 = 1 THEN Window("regular", <<"a.com">>)
                        ELSE Window("incognito", <<"b.com", "c.com">>)]
    /\ window_list = discovered
    /\ window_count = Len(discovered)
    /\ selected_window_indexes = <<>>
    /\ selected_windows = <<>>
    /\ selection_complete = FALSE
    /\ user_input = ""
    /\ before = NoSnapshot
    /\ history = <<>>
    /\ undone = NoEntry
    /\ any_undo = FALSE
    /\ ScrapeIdle
    /\ RestIdle

\* The selection loop, followed up to MaxBigPicks picks deep.
NextBigSelect ==
    \E c \in Chars :
        \/ Len(selected_window_indexes) < MaxBigPicks /\ ChooseWindow(c)
        \/ IntValueError(c)
        \/ Confirm(c)
        \/ Undo(c)
        \/ Reprompt(c)

BigSelectSpec == InitBigSelect /\ [][NextBigSelect]_vars

\* C20: whatever the pool size, every slot that still holds a window can be
\* picked: some character moves the slot's record to the result.
C20_EveryRemainingSlotPickable ==
    pc = "choosing" =>
        \A k \in NonEmptySlots :
            \E c \in Chars :
                ENABLED (/\ ChooseWindow(c)
                         /\ selected_window_indexes' = Append(selected_window_indexes, k)
                         /\ selected_windows' = Append(selected_windows, discovered[k]))

\* ================================================================ get_tab_urls (Windows)
Addresses == {"a.com", "b.com", "c.com", "d.com"}

\* select_windows' variables while the scraper runs.
SelectIdle ==
    /\ window_list = <<>> /\ window_count = 0
    /\ selected_window_indexes = <<>> /\ selected_windows = <<>>
    /\ selection_complete = FALSE /\ user_input = ""
    /\ discovered = <<>> /\ before = NoSnapshot /\ history = <<>>
    /\ undone = NoEntry /\ any_undo = FALSE

\* A window with one tab or more; any of its tabs may be the active one.
InitScrape ==
    /\ pc = "scraping"
    /\ tabs \in SeqsUpTo(Addresses, 1, MaxTabs)
    /\ start \in 1..Len(tabs)
    /\ cursor = start
    /\ tab_urls = <<>>
    /\ repeats = 0
    /\ copied = <<>>
    /\ SelectIdle
    /\ RestIdle

\* The loop condition.
KeepGoing(r) == r <= 2

\* A mutant of Seen: the address is compared with the latest saved one only.
SeenLatestOnly(url, list) == list # <<>> /\ url = Last(list)

\* "url in tab_urls".
Seen(url, list) == url \in Range(list)

\* ctrl+tab: the next tab becomes active, the first one after the last.
NextTab(i) == (i % Len(tabs)) + 1

\* A mutant of ScrapeCycle: the active tab is not advanced.
ScrapeCycleNoAdvance ==
    /\ pc = "scraping"
    /\ KeepGoing(repeats)
    /\ LET url == tabs[cursor]
       IN /\ copied' = Append(copied, url)
          /\ cursor' = cursor
          /\ IF ~Seen(url, tab_urls)
             THEN tab_urls' = Append(tab_urls, url) /\ repeats' = repeats
             ELSE tab_urls' = tab_urls /\ repeats' = repeats + 1
    /\ pc' = IF KeepGoing(repeats') THEN "scraping" ELSE "scraped"
    /\ UNCHANGED <<tabs, start, selectVars, restVars>>

\* One pass of the while loop: refresh, select and copy the address, move to the
\* next tab, then save the address if it is new and count a repeat otherwise.
ScrapeCycle ==
    /\ pc = "scraping"
    /\ KeepGoing(repeats)
    /\ LET url == tabs[cursor]
       IN /\ copied' = Append(copied, url)
          /\ cursor' = NextTab(cursor)
          /\ IF ~Seen(url, tab_urls)
             THEN tab_urls' = Append(tab_urls, url) /\ repeats' = repeats
             ELSE tab_urls' = tab_urls /\ repeats' = repeats + 1
    /\ pc' = IF KeepGoing(repeats') THEN "scraping" ELSE "scraped"
    /\ UNCHANGED <<tabs, start, selectVars, restVars>>

NextScrape == ScrapeCycle

ScrapeSpec == InitScrape /\ [][NextScrape]_vars

\* The program is one thread: a loop whose condition holds runs its next pass.
FairScrapeSpec == ScrapeSpec /\ WF_vars(ScrapeCycle)

\* ---------------------------------------------------------------- get_tab_urls: properties
Distinct(list) == \A i, j \in 1..Len(list) : i # j => list[i] # list[j]

\* The tab strip read as a cycle, from the tab that was active at entry.
FromStart == [i \in 1..Len(tabs) |-> tabs[((start + i - 2) % Len(tabs)) + 1]]

RECURSIVE FirstOccurrences(_)
FirstOccurrences(list) ==
    IF list = <<>> THEN <<>>
    ELSE LET rest == FirstOccurrences(Front(list))
         IN IF Last(list) \in Range(rest) THEN rest ELSE Append(rest, Last(list))

\* The latest cycle copied an address that had not been copied before.
CopiedUnseen == copied # <<>> /\ Last(copied) \notin Range(Front(copied))

\* C7: the scraper stops once the repeat counter reaches 2: no cycle starts with
\* the counter at 2, and N distinct addresses are scraped in exactly N + 2 cycles.
C7_StopsAtTwoRepeats ==
    /\ pc = "scraping" => repeats < 2
    /\ (pc = "scraped" /\ Distinct(tabs)) => Len(copied) = Len(tabs) + 2

\* C8: copying an address not seen before appends it to the tab list and resets
\* the repeat counter to 0.
C8_UnseenResetsRepeats ==
    CopiedUnseen => (Last(tab_urls) = Last(copied) /\ repeats = 0)

\* C9: on a tab strip that is a cycle of N >= 1 pairwise-distinct addresses the
\* scraper terminates, and what it returns is those N addresses in strip order.
C9_DistinctCycleScraped ==
    Distinct(tabs) =>
        /\ <>(pc = "scraped")
        /\ [](pc = "scraped" => tab_urls = FromStart)

\* C9 witness: three distinct tabs, the second one active at entry, scraped.
C9_Witness ==
    /\ pc = "scraped"
    /\ Distinct(tabs) /\ Len(tabs) = 3 /\ start = 2
    /\ tab_urls = <<tabs[2], tabs[3], tabs[1]>>

\* C10: the tab list never holds an address twice: each address copied is
\* recorded once, at the position of its first occurrence.
C10_NoAddressTwice ==
    /\ Distinct(tab_urls)
    /\ tab_urls = FirstOccurrences(copied)

\* C10 witness: the last tab duplicates its neighbour and is followed by the
\* wraparound to the first tab; the duplicate is recorded once.
C10_Witness ==
    /\ pc = "scraped"
    /\ tabs = <<"a.com", "b.com", "b.com">> /\ start = 1
    /\ copied = <<"a.com", "b.com", "b.com", "a.com", "b.com">>
    /\ tab_urls = <<"a.com", "b.com">>

\* ---------------------------------------------------------------- get_tab_urls: longer strips
\* No address sits in two adjacent tabs, the last tab being adjacent to the first.
NoAdjacentRepeat(strip) ==
    \A i \in 1..Len(strip) : strip[i] # strip[(i % Len(strip)) + 1]

\* A strip with one address in four non-adjacent tabs.
ExampleStrip == <<"a.com", "b.com", "a.com", "c.com", "a.com", "d.com", "a.com", "e.com">>

\* The scraper started on a strip without adjacent repeats.
InitStrip ==
    /\ pc = "scraping"
    /\ tabs \in {strip \in SeqsUpTo({"a.com", "b.com", "c.com"}, 2, MaxStrip) :
                     NoAdjacentRepeat(strip)} \cup {ExampleStrip}
    /\ start \in 1..Len(tabs)
    /\ cursor = start
    /\ tab_urls = <<>>
    /\ repeats = 0
    /\ copied = <<>>
    /\ SelectIdle
    /\ RestIdle

StripSpec == InitStrip /\ [][NextScrape]_vars

\* C19: on a strip where no address sits in two adjacent tabs, every distinct
\* address of the strip is in the list returned.
C19_NoAdjacentRepeatAllScraped ==
    (pc = "scraped" /\ NoAdjacentRepeat(tabs)) => Range(tab_urls) = Range(tabs)

\* ================================================================ get_window_list (macOS)
\* get_window_list of window_list_module.py (its macOS branch) and of window_macos.py.
WLM == "window_list_module"
MACOS == "window_macos"

\* What osascript prints is a sequence of pieces of text; "\n" is a newline.
NL == "\n"
CountOutputs ==
    {<<>>, <<"garbage", NL>>} \cup {<<c, NL>> : c \in {d \in AsciiDigits : int(d) <= MaxWindows}}
TypeOutputs == {<<"incognito", NL>>, <<"regular", NL>>, <<>>}
TabOutputs == {<<"a.com", NL>>, <<"b.com", "c.com", NL>>, <<>>}

\* .decode("UTF-8").replace("\n", "")
RemoveNewlines(out) == SelectSeq(out, LAMBDA piece : piece # NL)
Text(pieces) == IF pieces = <<>> THEN "" ELSE pieces[1]

\* int(window_count) accepts a decimal number with its newline and rejects the rest.
CountParses(out) == out # <<>> /\ out[1] \in AsciiDigits
CountOf(out) == IF out = <<>> THEN 0 ELSE int(out[1])

\* get_window_type(i), macOS branch: the output with its newlines removed.
get_window_type(out) == Text(RemoveNewlines(out))

\* get_tab_urls(i), macOS branch: "".split(", ") is [""].
get_tab_urls(out) == IF RemoveNewlines(out) = <<>> THEN <<"">> ELSE RemoveNewlines(out)

\* One external query: its kind, its window, whether it answered, and what it printed.
Query(kind, w, ok, out) == [q |-> kind, w |-> w, ok |-> ok, out |-> out]

InitEnum ==
    /\ pc = "get_window_count"
    /\ impl \in {WLM, MACOS}
    /\ window_index = 0 /\ queries = <<>> /\ raised = ""
    /\ count_output = <<>> /\ notice = FALSE
    /\ SelectIdle
    /\ ScrapeIdle
    /\ LaterIdle

enumFrame == <<selected_window_indexes, selected_windows, selection_complete, user_input,
               before, history, undone, any_undo, scrapeVars, laterVars>>

\* osascript cannot be run or exits with an error: check_output raises.
GetWindowCountFails ==
    /\ pc = "get_window_count"
    /\ queries' = Append(queries, Query("count", 0, FALSE, <<>>))
    /\ raised' = "CalledProcessError"
    /\ pc' = "raised"
    /\ UNCHANGED <<impl, window_index, count_output, notice, window_list, window_count,
                   discovered, enumFrame>>

\* The count query prints something int() rejects: ValueError.
GetWindowCountUnparseable(out) ==
    /\ pc = "get_window_count"
    /\ out # <<>> /\ ~CountParses(out)
    /\ queries' = Append(queries, Query("count", 0, FALSE, out))
    /\ count_output' = out
    /\ raised' = "ValueError"
    /\ pc' = "raised"
    /\ UNCHANGED <<impl, window_index, notice, window_list, window_count, discovered,
                   enumFrame>>

\* A mutant of NoWindows: the early return is missing.
NoWindowsFallsThrough(out) ==
    /\ pc = "get_window_count"
    /\ out = <<>> \/ (CountParses(out) /\ CountOf(out) = 0)
    /\ queries' = Append(queries, Query("count", 0, TRUE, out))
    /\ count_output' = out
    /\ window_count' = CountOf(out)
    /\ notice' = TRUE
    /\ window_index' = 1
    /\ pc' = "enumerating"
    /\ UNCHANGED <<impl, raised, window_list, discovered, enumFrame>>

\* No output (Chrome is not running) or a count of 0: notice, then return None.
NoWindows(out) ==
    /\ pc = "get_window_count"
    /\ out = <<>> \/ (CountParses(out) /\ CountOf(out) = 0)
    /\ queries' = Append(queries, Query("count", 0, TRUE, out))
    /\ count_output' = out
    /\ window_count' = CountOf(out)
    /\ notice' = TRUE
    /\ pc' = "returned_none"
    /\ UNCHANGED <<impl, window_index, raised, window_list, discovered, enumFrame>>

\* One window or more: window_list = [] and the per-window loop starts at 1.
CountWindows(out) ==
    /\ pc = "get_window_count"
    /\ CountParses(out) /\ CountOf(out) # 0
    /\ queries' = Append(queries, Query("count", 0, TRUE, out))
    /\ count_output' = out
    /\ window_count' = CountOf(out)
    /\ window_list' = <<>>
    /\ window_index' = 1
    /\ pc' = "enumerating"
    /\ UNCHANGED <<impl, raised, notice, discovered, enumFrame>>

InLoop == pc = "enumerating" /\ window_index <= window_count

\* A mutant of GetWindowTypeFails: the failure is swallowed and the window is
\* recorded as incognito with no tabs.
GetWindowTypeFailureSwallowed ==
    /\ InLoop /\ impl = WLM
    /\ queries' = Append(queries, Query("mode", window_index, FALSE, <<>>))
    /\ window_list' = Append(window_list, Window("incognito", <<>>))
    /\ window_index' = window_index + 1
    /\ UNCHANGED <<pc, impl, raised, count_output, notice, window_count, discovered,
                   enumFrame>>

\* The mode query of window i fails: check_output raises out of get_window_list.
GetWindowTypeFails ==
    /\ InLoop /\ impl = WLM
    /\ queries' = Append(queries, Query("mode", window_index, FALSE, <<>>))
    /\ raised' = "CalledProcessError"
    /\ pc' = "raised"
    /\ UNCHANGED <<impl, window_index, count_output, notice, window_list, window_count,
                   discovered, enumFrame>>

\* The mode query of window i answers and its tab query fails.
GetTabUrlsFails ==
    /\ InLoop /\ impl = WLM
    /\ queries' = queries \o <<Query("mode", window_index, TRUE, <<"regular", NL>>),
                                Query("tabs", window_index, FALSE, <<>>)>>
    /\ raised' = "CalledProcessError"
    /\ pc' = "raised"
    /\ UNCHANGED <<impl, window_index, count_output, notice, window_list, window_count,
                   discovered, enumFrame>>

\* Both queries of window i answer: its Window record joins window_list.
WindowQueried(type_out, tab_out) ==
    /\ InLoop /\ impl = WLM
    /\ queries' = queries \o <<Query("mode", window_index, TRUE, type_out),
                                Query("tabs", window_index, TRUE, tab_out)>>
    /\ window_list' = Append(window_list,
                             Window(get_window_type(type_out), get_tab_urls(tab_out)))
    /\ window_index' = window_index + 1
    /\ UNCHANGED <<pc, impl, raised, count_output, notice, window_count, discovered,
                   enumFrame>>

\* window_macos.get_window_mode(i) hands the int i to subprocess as an argument:
\* TypeError, before any process is started.
GetWindowModeTypeError ==
    /\ InLoop /\ impl = MACOS
    /\ raised' = "TypeError"
    /\ pc' = "raised"
    /\ UNCHANGED <<impl, window_index, queries, count_output, notice, window_list,
                   window_count, discovered, enumFrame>>

\* window_list_module: a single window is returned without asking.
ReturnSingleWindow ==
    /\ pc = "enumerating" /\ window_index > window_count
    /\ impl = WLM
    /\ window_count = 1
    /\ pc' = "returned_list"
    /\ UNCHANGED <<enumVars, window_list, window_count, discovered, enumFrame>>

\* window_list_module: select_windows(window_list) is entered.
EnterSelectWindows ==
    /\ pc = "enumerating" /\ window_index > window_count
    /\ impl = WLM
    /\ window_count # 1
    /\ discovered' = window_list
    /\ pc' = "choosing"
    /\ UNCHANGED <<enumVars, window_list, window_count, enumFrame>>

NextEnum ==
    \/ GetWindowCountFails
    \/ \E out \in CountOutputs : GetWindowCountUnparseable(out)
    \/ \E out \in CountOutputs : NoWindows(out)
    \/ \E out \in CountOutputs : CountWindows(out)
    \/ GetWindowTypeFails
    \/ GetTabUrlsFails
    \/ \E type_out \in TypeOutputs, tab_out \in TabOutputs : WindowQueried(type_out, tab_out)
    \/ GetWindowModeTypeError
    \/ ReturnSingleWindow
    \/ EnterSelectWindows

EnumSpec == InitEnum /\ [][NextEnum]_vars

\* ---------------------------------------------------------------- get_window_list: properties
PerWindowQueries == {k \in 1..Len(queries) : queries[k].q # "count"}
FailedQueries == {k \in 1..Len(queries) : ~queries[k].ok}

\* The count query answered with no output or with a count of zero.
ZeroWindowsReported ==
    /\ pc # "get_window_count"
    /\ Len(queries) >= 1 /\ queries[1].ok
    /\ count_output = <<>> \/ (CountParses(count_output) /\ CountOf(count_output) = 0)

\* C11: when the count query reports zero windows or prints nothing, get_window_list
\* returns None after the notice, with no per-window query and no selection loop.
C11_ZeroWindowsReturnsNone ==
    ZeroWindowsReported =>
        /\ pc = "returned_none"
        /\ notice
        /\ PerWindowQueries = {}
        /\ window_list = <<>>

\* C11 witness: Chrome is not running (no output) and None has been returned.
C11_Witness ==
    /\ pc = "returned_none"
    /\ count_output = <<>>
    /\ queries = <<Query("count", 0, TRUE, <<>>)>>
    /\ notice

\* The two mode values window_list_module records.
ModeValues == {"regular", "incognito"}

\* The windows whose mode query answered and whose record was built.
ModeAnswers ==
    {k \in 1..Len(queries) :
        queries[k].q = "mode" /\ queries[k].ok /\ queries[k].w <= Len(window_list)}

\* C12: every Window Record's mode is one of the two recognised values, and a mode
\* query that prints anything but exactly a recognised mode makes the window's mode
\* the private/incognito one.
C12_ModeRecognisedElsePrivate ==
    \A k \in ModeAnswers :
        LET type == window_list[queries[k].w].type
            printed == queries[k].out
        IN /\ type \in ModeValues
           /\ printed \notin {<<"regular", NL>>, <<"incognito", NL>>} => type = "incognito"

\* C13: if the count query, a mode query or a tab query fails to run, or the count
\* cannot be parsed, get_window_list returns no list: the exception leaves it, and
\* neither a return nor the selection loop is reached.
C13_QueryFailurePropagates ==
    FailedQueries # {} =>
        /\ pc = "raised"
        /\ raised \in {"CalledProcessError", "ValueError"}
        /\ Cardinality(FailedQueries) = 1
        /\ Last(queries).ok = FALSE

\* C13 witness: the tab query of the second window fails after the first window's
\* record was built.
C13_Witness ==
    /\ pc = "raised" /\ raised = "CalledProcessError"
    /\ Len(window_list) = 1
    /\ Last(queries) = Query("tabs", 2, FALSE, <<>>)

\* ================================================================ window_macos.choose_windows
\* Python indexing: list[k] counts from the end for a negative k and raises
\* IndexError outside -len..len-1.
PyIndexRaises(list, k) == k >= Len(list) \/ k < 0 - Len(list)
PyIndex(list, k) == IF k >= 0 THEN list[k + 1] ELSE list[Len(list) + k + 1]

\* user_input is assigned the prompt text itself (line 137 calls no input()):
\* the header drawn by common.box, then "\n\nSave which windows? ...".  Split at
\* spaces and commas, that is the header's pieces and then a piece holding "Save".
HeaderPieces == {"0", "1", "2", "9", "", "x"}
PromptTail == <<"Save">>
PromptTexts == {h \o PromptTail : h \in SeqsUpTo(HeaderPieces, 0, MaxHeader)}

\* "index.isdigit" without a call is the bound method, which is true of any index.
isdigit_method(index) == TRUE

\* int(index) of a piece of text.
PieceIntRaises(index) == index \notin AsciiDigits

\* The condition of line 146, once int(index) has a value.
InvalidSelection(index) ==
    \/ ~isdigit_method(index) /\ index # ""
    \/ isdigit_method(index) /\ ~(0 < int(index) /\ int(index) <= Len(window_list))

InitChoose ==
    /\ pc = "choose_windows"
    /\ window_list \in SeqsUpTo(WindowRecords, 1, MaxWindows)
    /\ window_count = 0
    /\ selected_window_indexes = <<>> /\ selected_windows = <<>>
    /\ selection_complete = FALSE /\ user_input = ""
    /\ discovered = <<>> /\ before = NoSnapshot /\ history = <<>>
    /\ undone = NoEntry /\ any_undo = FALSE
    /\ ScrapeIdle
    /\ EnumIdle
    /\ ChooseIdle /\ WinIdle /\ FileIdle

chooseFrame == <<window_list, window_count, selected_window_indexes, selected_windows,
                 selection_complete, discovered, before, history, undone, any_undo,
                 scrapeVars, impl, window_index, queries, count_output, notice,
                 winVars, fileVars>>

\* The top of the while loop: the prompt text is split into indexes.
ChoosePrompt(text) ==
    /\ pc = "choose_windows"
    /\ ~invalid_choice
    /\ invalid_choice' = FALSE
    /\ user_input' = "prompt text"
    /\ indexes' = text
    /\ chosen_windows' = <<>>
    /\ index_pos' = 1
    /\ pc' = "checking"
    /\ UNCHANGED <<raised, chooseFrame>>

InForLoop == pc = "checking" /\ index_pos <= Len(indexes)

\* int(index) raises ValueError on a piece that is no decimal number, the empty
\* piece between two separators included.
IndexValueError ==
    /\ InForLoop
    /\ isdigit_method(indexes[index_pos])
    /\ PieceIntRaises(indexes[index_pos])
    /\ raised' = "ValueError"
    /\ pc' = "raised"
    /\ UNCHANGED <<invalid_choice, indexes, index_pos, chosen_windows, user_input,
                   chooseFrame>>

\* A number above len(window_list): flagged, then window_list[int(index) - 1]
\* raises IndexError.
IndexIndexError ==
    /\ InForLoop
    /\ ~PieceIntRaises(indexes[index_pos])
    /\ InvalidSelection(indexes[index_pos])
    /\ indexes[index_pos] # ""
    /\ PyIndexRaises(window_list, int(indexes[index_pos]) - 1)
    /\ invalid_choice' = TRUE
    /\ raised' = "IndexError"
    /\ pc' = "raised"
    /\ UNCHANGED <<indexes, index_pos, chosen_windows, user_input, chooseFrame>>

\* One pass of the for loop that raises nothing: the index is flagged if it is
\* out of range, and window_list[int(index) - 1] joins chosen_windows either way.
CheckIndex ==
    /\ InForLoop
    /\ ~PieceIntRaises(indexes[index_pos])
    /\ invalid_choice' = (IF InvalidSelection(indexes[index_pos]) THEN TRUE
                          ELSE invalid_choice)
    /\ indexes[index_pos] # ""
    /\ ~PyIndexRaises(window_list, int(indexes[index_pos]) - 1)
    /\ chosen_windows' = Append(chosen_windows,
                                PyIndex(window_list, int(indexes[index_pos]) - 1))
    /\ index_pos' = index_pos + 1
    /\ UNCHANGED <<pc, raised, indexes, user_input, chooseFrame>>

\* The for loop never runs out of indexes (the piece holding "Save" raises), so
\* neither the loop test after it nor "return chosen_windows" is reached, and
\* user_input is never "".
NextChoose ==
    \/ \E text \in PromptTexts : ChoosePrompt(text)
    \/ IndexValueError
    \/ IndexIndexError
    \/ CheckIndex

ChooseSpec == InitChoose /\ [][NextChoose]_vars

\* ---------------------------------------------------------------- choose_windows: properties
\* An index that is an in-range window number.
ValidIndex(index) ==
    index \in AsciiDigits /\ 0 < int(index) /\ int(index) <= Len(window_list)
CheckedIndexes == SubSeq(indexes, 1, index_pos - 1)
SomethingInvalid == \E k \in 1..Len(indexes) : indexes[k] # "" /\ ~ValidIndex(indexes[k])

\* C14: when the selection holds anything but in-range window numbers, commas and
\* spaces, choose_windows raises nothing and does not return, and no invalid or
\* out-of-range index contributes an entry to the list it builds.
C14_InvalidSelectionReprompts ==
    SomethingInvalid =>
        /\ raised = ""
        /\ pc \in {"choose_windows", "checking"}
        /\ Len(chosen_windows)
               = Cardinality({k \in 1..Len(CheckedIndexes) : ValidIndex(CheckedIndexes[k])})

\* ================================================================ get_window_list (Windows)
\* The Windows branch of get_window_list up to focus_chrome_window, and that function.
Answers == {"yes", "YES", "Yes", "no", "y", ""}

\* str.lower()
lower(text) == CASE text = "YES" -> "yes" [] text = "Yes" -> "yes" [] OTHER -> text

\* Window titles, and "Google Chrome" in <title>.
Titles == {"New Tab - Google Chrome", "Untitled - Notepad", "save-tabs"}
ContainsGoogleChrome(text) == text = "New Tab - Google Chrome"

InitWin ==
    /\ pc = "disclaimer"
    /\ WinIdle
    /\ SelectIdle
    /\ ScrapeIdle
    /\ EnumIdle
    /\ ChooseIdle /\ FileIdle

winFrame == <<selectVars, scrapeVars, enumVars, chooseVars, fileVars>>

\* A mutant of ConsentRefused: the answer is not looked at.
ConsentIgnored(answer) ==
    /\ pc = "disclaimer"
    /\ consent' = answer
    /\ lower(answer) # "yes"
    /\ foreground_window_text' = ""
    /\ pc' = "focus_chrome_window"
    /\ UNCHANGED <<foreground, clicks, keystrokes, prompts, focused_at, winFrame>>

\* get_user_consent_windows returns None on any answer but "yes": get_window_list
\* returns None.
ConsentRefused(answer) ==
    /\ pc = "disclaimer"
    /\ consent' = answer
    /\ lower(answer) # "yes"
    /\ pc' = "returned_none"
    /\ UNCHANGED <<foreground, foreground_window_text, clicks, keystrokes, prompts,
                   focused_at, winFrame>>

\* "yes": window_list = [] and the first focus_chrome_window() starts.
ConsentGiven(answer) ==
    /\ pc = "disclaimer"
    /\ consent' = answer
    /\ lower(answer) = "yes"
    /\ foreground_window_text' = ""
    /\ pc' = "focus_chrome_window"
    /\ UNCHANGED <<foreground, clicks, keystrokes, prompts, focused_at, winFrame>>

\* One pass of the loop of focus_chrome_window: click at (200, 0), read the
\* foreground window's title, and prompt if it does not hold "Google Chrome".
\* No line assigns foreground_window_text, which the loop condition tests.
\* The history counters stop counting at MaxClicks; the loop goes on.
FocusClick(title) ==
    /\ pc = "focus_chrome_window"
    /\ ~ContainsGoogleChrome(foreground_window_text)
    /\ clicks' = IF clicks < MaxClicks THEN clicks + 1 ELSE clicks
    /\ foreground' = title
    /\ prompts' = IF ~ContainsGoogleChrome(title) /\ prompts < MaxClicks
                  THEN prompts + 1 ELSE prompts
    /\ focused_at' = IF focused_at = 0 /\ ContainsGoogleChrome(title)
                     THEN clicks' ELSE focused_at
    /\ foreground_window_text' = foreground_window_text
    /\ pc' = IF ContainsGoogleChrome(foreground_window_text')
             THEN "get_window_type" ELSE "focus_chrome_window"
    /\ UNCHANGED <<consent, keystrokes, winFrame>>

\* The loop of focus_chrome_window is never left, so get_window_type, get_tab_urls
\* and ask_if_continue are not reached from here.
NextWin ==
    \/ \E answer \in Answers : ConsentRefused(answer)
    \/ \E answer \in Answers : ConsentGiven(answer)
    \/ \E title \in Titles : FocusClick(title)

WinSpec == InitWin /\ [][NextWin]_vars

\* The program is one thread: a prompt that is answered and a loop whose
\* condition holds go on to their next step.
FairWinSpec == WinSpec /\ WF_vars(NextWin)

\* ---------------------------------------------------------------- get_window_list (Windows): properties
\* C15: no simulated click or keystroke is issued unless the disclaimer was answered
\* "yes" (in any case); any other answer returns None with no window scraped and
\* no change of focus or clipboard.
C15_NoInputSimulationWithoutConsent ==
    /\ (clicks > 0 \/ keystrokes > 0 \/ foreground # "") => lower(consent) = "yes"
    /\ (pc # "disclaimer" /\ lower(consent) # "yes") =>
           /\ pc = "returned_none"
           /\ clicks = 0 /\ keystrokes = 0 /\ foreground = ""
           /\ window_list = <<>> /\ tab_urls = <<>> /\ copied = <<>>

\* C15 witness: clicks issued after the answer "Yes".
C15_Witness ==
    /\ consent = "Yes"
    /\ clicks = 2
    /\ pc = "focus_chrome_window"

\* C18: once the foreground window's title holds "Google Chrome" after a focus
\* click, the verification loop is left with no further click or prompt.
C18_FocusLoopExits ==
    focused_at > 0 =>
        /\ pc # "focus_chrome_window"
        /\ clicks = focused_at

FileName(n, ext) == [stem |-> "file_name", n |-> n, ext |-> ext]
AllNames == {FileName(n, ext) : n \in 1..MaxSuffix, ext \in {"", ".bat"}}

\* The extension get_file_path appends.
Ext == IF platform = "Windows" THEN ".bat" ELSE ""

\* overwrite.txt loads as "" until a setting has been saved.
InitFile ==
    /\ pc = "get_file_info"
    /\ platform \in {"Windows", "Darwin"}
    /\ overwrite_txt \in {"", "off", "on"}
    /\ existing \in SUBSET AllNames
    /\ file_overwriting = "" /\ suffix = 0 /\ new_file_name = NoName /\ file_path = NoName
    /\ SelectIdle
    /\ ScrapeIdle
    /\ EnumIdle
    /\ ChooseIdle /\ WinIdle

fileFrame == <<selectVars, scrapeVars, enumVars, chooseVars, winVars>>

\* The settings menu opens "File overwriting": an unset setting is saved as "off".
OpenOverwriteSettings ==
    /\ pc = "get_file_info"
    /\ overwrite_txt' = IF overwrite_txt = "" THEN "off" ELSE overwrite_txt
    /\ pc' = "overwrite_settings"
    /\ UNCHANGED <<platform, file_overwriting, existing, suffix, new_file_name, file_path,
                   fileFrame>>

\* Space toggles the setting and saves it.
ToggleOverwrite ==
    /\ pc = "overwrite_settings"
    /\ overwrite_txt' = IF overwrite_txt = "off" THEN "on" ELSE "off"
    /\ UNCHANGED <<pc, platform, file_overwriting, existing, suffix, new_file_name,
                   file_path, fileFrame>>

\* Any other key leaves the settings.
LeaveOverwriteSettings ==
    /\ pc = "overwrite_settings"
    /\ pc' = "get_file_info"
    /\ UNCHANGED <<platform, overwrite_txt, file_overwriting, existing, suffix,
                   new_file_name, file_path, fileFrame>>

\* A file name was entered; get_file_path finds the setting "off" and starts with
\* the name as given.
GetFilePathChecking ==
    /\ pc = "get_file_info"
    /\ file_overwriting' = overwrite_txt
    /\ file_overwriting' = "off"
    /\ suffix' = 2
    /\ new_file_name' = FileName(1, Ext)
    /\ pc' = "suffix_loop"
    /\ UNCHANGED <<platform, overwrite_txt, existing, file_path, fileFrame>>

\* get_file_path finds any other setting: the path is returned unchecked.
GetFilePathUnchecked ==
    /\ pc = "get_file_info"
    /\ file_overwriting' = overwrite_txt
    /\ file_overwriting' # "off"
    /\ file_path' = FileName(1, Ext)
    /\ pc' = "path_returned"
    /\ UNCHANGED <<platform, overwrite_txt, existing, suffix, new_file_name, fileFrame>>

\* A mutant of NextSuffix: the suffix is raised before the name is built.
NextSuffixRaisedFirst ==
    /\ pc = "suffix_loop"
    /\ new_file_name \in existing
    /\ suffix' = suffix + 1
    /\ new_file_name' = FileName(suffix', Ext)
    /\ UNCHANGED <<pc, platform, overwrite_txt, file_overwriting, existing, file_path,
                   fileFrame>>

\* One pass of the while loop: the candidate exists, try the next suffix.
NextSuffix ==
    /\ pc = "suffix_loop"
    /\ new_file_name \in existing
    /\ new_file_name' = FileName(suffix, Ext)
    /\ suffix' = suffix + 1
    /\ UNCHANGED <<pc, platform, overwrite_txt, file_overwriting, existing, file_path,
                   fileFrame>>

\* The candidate does not exist: it is the path returned.
ReturnFreePath ==
    /\ pc = "suffix_loop"
    /\ new_file_name \notin existing
    /\ file_path' = new_file_name
    /\ pc' = "path_returned"
    /\ UNCHANGED <<platform, overwrite_txt, file_overwriting, existing, suffix,
                   new_file_name, fileFrame>>

NextFile ==
    \/ OpenOverwriteSettings
    \/ ToggleOverwrite
    \/ LeaveOverwriteSettings
    \/ GetFilePathChecking
    \/ GetFilePathUnchecked
    \/ NextSuffix
    \/ ReturnFreePath

FileSpec == InitFile /\ [][NextFile]_vars

\* The program is one thread: once get_file_path is in its loop, the loop runs.
FairFileSpec == FileSpec /\ WF_vars(NextSuffix \/ ReturnFreePath)

\* ---------------------------------------------------------------- file_menu: properties
\* C16: overwriting is off by default: unless the stored setting is "on", the path
\* get_file_path returns does not exist in the target directory.
C16_NoOverwriteUnlessOn ==
    (pc = "path_returned" /\ file_overwriting # "on") => file_path \notin existing

\* The name get_file_path must find: the name as given if it is free, else the
\* one with the smallest suffix from 2 up that is free.
FreeSuffixes == {k \in 2..(MaxSuffix + 1) : FileName(k, Ext) \notin existing}
SmallestFreeName ==
    IF FileName(1, Ext) \notin existing THEN FileName(1, Ext)
    ELSE FileName(CHOOSE k \in FreeSuffixes : \A other \in FreeSuffixes : k <= other, Ext)

\* C21: with the setting "off", get_file_path returns the name unchanged when it
\* is free, else name-k for the smallest k >= 2 that is free (.bat after the
\* suffix on Windows), and its loop always ends.
C21_SmallestFreeSuffix ==
    /\ []((pc = "path_returned" /\ file_overwriting = "off") =>
              file_path = SmallestFreeName)
    /\ [](pc = "suffix_loop" => <>(pc = "path_returned"))

\* C21 witness: on Windows, file_name.bat and file_name-2.bat exist (and the
\* names without .bat do not): file_name-3.bat is returned.
C21_Witness ==
    /\ pc = "path_returned"
    /\ file_overwriting = "off"
    /\ platform = "Windows"
    /\ existing = {FileName(1, ".bat"), FileName(2, ".bat")}
    /\ file_path = FileName(3, ".bat")

====
